---- MODULE Spec2Model ----
(***************************************************************************)
(* Flutter Assets Generator (src/src/extension.ts): the sync coordinator   *)
(* (debounce timer, re-entrancy guard, force command), the manifest        *)
(* synchronizer (pubspec.yaml), the code generator and the identifier      *)
(* derivation.                                                             *)
(*                                                                         *)
(* Text is modelled as text: names, paths, manifest lines and identifiers  *)
(* are strings, taken apart character by character (Head, Tail, SubSeq and *)
(* \o on strings).  A text file is the sequence of its lines: pubspec.yaml *)
(* is content.split('\n'), written back with join('\n'); a generated file  *)
(* is the sequence of its newline-terminated lines.  No name of the model  *)
(* holds a newline, so equal line sequences are byte-equal files.          *)
(***************************************************************************)
EXTENDS Naturals, Sequences, FiniteSets

VARIABLES
    isSyncing,      \* extension.ts:7   the re-entrancy guard
    syncTimer,      \* extension.ts:6   handle of the last debounce timer, 0 = undefined
    timers,         \* host timer queue: pending debounce timers [id, remaining]
    resetTimers,    \* host timer queue: pending guard-reset callbacks (remaining ms)
    autoSync,       \* configuration key autoSync
    statusText,     \* statusBarItem.text
    workspaceOpen,  \* vscode.workspace.workspaceFolders is defined
    sinceEvent,     \* ms elapsed since the last change event that armed a timer (saturating)
    dirs,           \* directories on disk below the project root's assets/ (paths as name sequences)
    files,          \* files on disk below assets/ (paths as name sequences)
    manifest,       \* pubspec.yaml: whether it exists, and its lines
    outFiles,       \* output directory: whether it exists, and file name -> content (lines)
    faulty,         \* whether file operations of this project can fail (fixed per behaviour)
    toggling,       \* toggle command suspended at its await: the value it will write, or "none"
    lastOp,         \* what the last handler did (observation only)
    burstPasses,    \* passes started by debounce timers since the last change event (observation only)
    synced,         \* a pass has succeeded and the tree has not changed since (observation only)
    fsOps,          \* number of file-system changes made so far (bounded by MaxFsOps)
    fmtIn, fmtOut, fmtPc   \* identifier derivation applied to one name

coordVars == <<isSyncing, syncTimer, timers, resetTimers, autoSync, statusText,
               workspaceOpen, sinceEvent, toggling, burstPasses>>
fsVars == <<dirs, files, manifest, outFiles, faulty>>
fmtVars == <<fmtIn, fmtOut, fmtPc>>
vars == <<isSyncing, syncTimer, timers, resetTimers, autoSync, statusText,
          workspaceOpen, sinceEvent, toggling, burstPasses, dirs, files, manifest,
          outFiles, faulty, lastOp, synced, fsOps, fmtIn, fmtOut, fmtPc>>

-----------------------------------------------------------------------------
(* Strings *)

LowerChars == "abcdefghijklmnopqrstuvwxyz"
UpperChars == "ABCDEFGHIJKLMNOPQRSTUVWXYZ"
DigitChars == "0123456789"

CharAt(s, i) == SubSeq(s, i, i)
CharsOf(s) == { CharAt(s, i) : i \in 1..Len(s) }
IndexIn(s, c) == CHOOSE i \in 1..Len(s) : CharAt(s, i) = c

LowerSet == CharsOf(LowerChars)
UpperSet == CharsOf(UpperChars)
DigitSet == CharsOf(DigitChars)

IsLower(c) == c \in LowerSet
IsUpper(c) == c \in UpperSet
IsDigit(c) == c \in DigitSet
IsAlnum(c) == IsLower(c) \/ IsUpper(c) \/ IsDigit(c)

ToUpperCase(c) == IF IsLower(c) THEN CharAt(UpperChars, IndexIn(LowerChars, c)) ELSE c
ToLowerCase(c) == IF IsUpper(c) THEN CharAt(LowerChars, IndexIn(UpperChars, c)) ELSE c

StartsWith(s, p) == Len(s) >= Len(p) /\ SubSeq(s, 1, Len(p)) = p
EndsWith(s, p) == Len(s) >= Len(p) /\ SubSeq(s, Len(s) - Len(p) + 1, Len(s)) = p
DropLast(s) == SubSeq(s, 1, Len(s) - 1)
LastChar(s) == CharAt(s, Len(s))

RECURSIVE RemoveChars(_, _)
RemoveChars(s, cs) ==
    IF s = "" THEN ""
    ELSE IF Head(s) \in cs THEN RemoveChars(Tail(s), cs)
         ELSE Head(s) \o RemoveChars(Tail(s), cs)

RECURSIVE KeepAlnum(_)
KeepAlnum(s) ==
    IF s = "" THEN ""
    ELSE IF IsAlnum(Head(s)) THEN Head(s) \o KeepAlnum(Tail(s))
         ELSE KeepAlnum(Tail(s))

RECURSIVE TrimStart(_)
TrimStart(s) == IF s # "" /\ Head(s) = " " THEN TrimStart(Tail(s)) ELSE s
RECURSIVE TrimEnd(_)
TrimEnd(s) == IF s # "" /\ LastChar(s) = " " THEN TrimEnd(DropLast(s)) ELSE s
Trim(s) == TrimEnd(TrimStart(s))

\* s.split(sep) for a one-character separator
RECURSIVE SplitFrom(_, _, _)
SplitFrom(s, sep, cur) ==
    IF s = "" THEN <<cur>>
    ELSE IF Head(s) = sep THEN <<cur>> \o SplitFrom(Tail(s), sep, "")
         ELSE SplitFrom(Tail(s), sep, cur \o Head(s))
Split(s, sep) == SplitFrom(s, sep, "")

RECURSIVE Join(_, _)
Join(parts, sep) ==
    IF Len(parts) = 0 THEN ""
    ELSE IF Len(parts) = 1 THEN parts[1]
         ELSE parts[1] \o sep \o Join(Tail(parts), sep)

Range(f) == { f[i] : i \in DOMAIN f }

-----------------------------------------------------------------------------
(* Identifier derivation *)

dartKeywords ==
    {"class", "switch", "return", "default", "break", "if", "else", "for",
     "var", "final", "const"}

Delims == {"-", "_"}

RECURSIVE SkipDelims(_)
SkipDelims(s) == IF s # "" /\ Head(s) \in Delims THEN SkipDelims(Tail(s)) ELSE s

\* name.replace(/[-_]+(.)?/g, (_, c) => c ? c.toUpperCase() : '')
RECURSIVE CamelReplace(_)
CamelReplace(s) ==
    IF s = "" THEN ""
    ELSE IF Head(s) \in Delims
         THEN LET r == SkipDelims(s)
              IN  IF r = "" THEN "" ELSE ToUpperCase(Head(r)) \o CamelReplace(Tail(r))
         ELSE Head(s) \o CamelReplace(Tail(s))

LowerFirst(s) == IF Len(s) > 0 THEN ToLowerCase(Head(s)) \o Tail(s) ELSE s

\* A slip of the digit rule: the prefix is never added.
formatPropertyNameNoItem(name) ==
    LET c1 == LowerFirst(KeepAlnum(CamelReplace(name)))
        c3 == IF c1 \in dartKeywords THEN c1 \o "Asset" ELSE c1
    IN  IF c3 = "" THEN "unknown" ELSE c3

formatPropertyName(name) ==
    LET c1 == LowerFirst(KeepAlnum(CamelReplace(name)))
        c2 == IF c1 # "" /\ IsDigit(Head(c1)) THEN "item" \o c1 ELSE c1
        c3 == IF c2 \in dartKeywords THEN c2 \o "Asset" ELSE c2
    IN  IF c3 = "" THEN "unknown" ELSE c3

-----------------------------------------------------------------------------
(* The file system below the project root *)

\* pubspec.yaml and the output directory may be missing
NoFile == [ exists |-> FALSE, lines |-> << >> ]
NoDir == [ exists |-> FALSE, files |-> [ f \in {} |-> << >> ] ]
ManifestOf(lines) == [ exists |-> TRUE, lines |-> lines ]
OutputOf(fileMap) == [ exists |-> TRUE, files |-> fileMap ]

\* Directories and files that may exist below assets/, as name sequences
\* relative to the asset root; <<>> is the asset root itself.
DirUniverse ==
    { <<>>, <<"images">>, <<"images", "icons">>, <<"images", "2.0x">>, <<"image">> }
FileUniverse ==
    { <<"readme.md">>, <<"images", "logo.png">>, <<"images", ".gitkeep">>,
      <<"images", "icons", "user.svg">>, <<"images", "2.0x", "logo.png">>,
      <<"image", "a.png">> }

\* The order in which fs.readdirSync enumerates the names of a directory.
NameOrder ==
    << ".gitkeep", "2.0x", "a.png", "icons", "image", "images", "logo.png",
       "readme.md", "user.svg" >>

Parent(p) == SubSeq(p, 1, Len(p) - 1)
IsUnder(p, q) == Len(p) >= Len(q) /\ SubSeq(p, 1, Len(q)) = q

\* A well-formed tree: every node's parent directory exists.
TreeOk(ds, fs) ==
    /\ \A d \in ds : d = <<>> \/ Parent(d) \in ds
    /\ \A f \in fs : Parent(f) \in ds

\* fs.readdirSync(dirPath, { withFileTypes: true }): the names, in enumeration order
ReadDirDirs(p, ds, fs) == SelectSeq(NameOrder, LAMBDA n : Append(p, n) \in ds)
ReadDirFiles(p, ds, fs) == SelectSeq(NameOrder, LAMBDA n : Append(p, n) \in fs)

\* /^\d\.\dx$/.test(name)
IsVariant(name) ==
    /\ Len(name) = 4
    /\ IsDigit(CharAt(name, 1))
    /\ CharAt(name, 2) = "."
    /\ IsDigit(CharAt(name, 3))
    /\ CharAt(name, 4) = "x"

RECURSIVE ReplaceChar(_, _, _)
ReplaceChar(s, from, to) ==
    IF s = "" THEN ""
    ELSE (IF Head(s) = from THEN to ELSE Head(s)) \o ReplaceChar(Tail(s), from, to)

\* relPath.replace(/\\/g, '/')
ForwardSlash(s) == ReplaceChar(s, "\\", "/")

RECURSIVE ToLowerStr(_)
ToLowerStr(s) == IF s = "" THEN "" ELSE ToLowerCase(Head(s)) \o ToLowerStr(Tail(s))

\* name.charAt(0).toUpperCase() + name.slice(1)
Capitalize(s) == IF s = "" THEN "" ELSE ToUpperCase(Head(s)) \o Tail(s)

\* file.name.replace(/\.[^/.]+$/, "")
StripExtension(name) ==
    LET dots == { i \in 1..Len(name) : CharAt(name, i) = "." }
    IN  IF dots = {} THEN name
        ELSE LET i == CHOOSE k \in dots : \A j \in dots : j <= k
             IN  IF i < Len(name) /\ "/" \notin CharsOf(SubSeq(name, i + 1, Len(name)))
                 THEN SubSeq(name, 1, i - 1)
                 ELSE name

\* fs.existsSync(path.join(rootPath, dirPathStr)) for a path below assets/:
\* path.join drops empty segments but keeps a trailing slash, and a path with
\* a trailing slash names a directory only.
PathExists(str, ds, fs) ==
    LET segs == Split(str, "/")
        names == SelectSeq(segs, LAMBDA x : x # "")
        trailing == segs[Len(segs)] = ""
    IN  /\ Len(names) >= 1
        /\ names[1] = "assets"
        /\ \/ Tail(names) \in ds
           \/ ~trailing /\ Tail(names) \in fs

-----------------------------------------------------------------------------
(* Code generator *)

\* One string-valued property line of a generated class
StringProperty(relativePath, fileName) ==
    "  final String " \o formatPropertyName(StripExtension(fileName)) \o " = 'assets/"
        \o ForwardSlash(relativePath) \o "/" \o fileName \o "';"
        \o (IF EndsWith(ToLowerStr(fileName), ".svg") THEN " // SVG File" ELSE "")

NestedClassName(className, dirName) == className \o Capitalize(dirName)

ClassProperty(className, dirName) ==
    "  final " \o NestedClassName(className, dirName) \o " " \o formatPropertyName(dirName)
        \o " = const " \o NestedClassName(className, dirName) \o "();"

\* The files the walker emits properties for: dotfiles are left out.
FilesOfNoDotFilter(p, ds, fs) == ReadDirFiles(p, ds, fs)

FilesOf(p, ds, fs) == SelectSeq(ReadDirFiles(p, ds, fs), LAMBDA n : ~StartsWith(n, "."))

\* The subdirectories the walker recurses into: variant directories are left out.
SubdirsOf(p, ds, fs) == SelectSeq(ReadDirDirs(p, ds, fs), LAMBDA n : ~IsVariant(n))

\* generateClassRecursively(dirPath, relativePath, className): the emitted
\* text as a sequence of newline-terminated lines.
RECURSIVE generateClassRecursively(_, _, _, _, _)
RECURSIVE NestedClasses(_, _, _, _, _, _)
generateClassRecursively(p, relativePath, className, ds, fs) ==
    LET subdirs == SubdirsOf(p, ds, fs)
        fileNames == FilesOf(p, ds, fs)
    IN  << "class " \o className \o " {", "  const " \o className \o "();", "" >>
        \o [ i \in 1..Len(subdirs) |-> ClassProperty(className, subdirs[i]) ]
        \o [ i \in 1..Len(fileNames) |-> StringProperty(relativePath, fileNames[i]) ]
        \o << "}", "" >>
        \o NestedClasses(subdirs, p, relativePath, className, ds, fs)
NestedClasses(subdirs, p, relativePath, className, ds, fs) ==
    IF Len(subdirs) = 0 THEN << >>
    ELSE generateClassRecursively(Append(p, subdirs[1]), relativePath \o "/" \o subdirs[1],
                                  NestedClassName(className, subdirs[1]), ds, fs)
         \o NestedClasses(Tail(subdirs), p, relativePath, className, ds, fs)

\* rootFolder.endsWith('s') ? rootFolder.slice(0, -1) : rootFolder
BaseName(rootFolder) == IF EndsWith(rootFolder, "s") THEN DropLast(rootFolder) ELSE rootFolder
PartFileName(rootFolder) == BaseName(rootFolder) \o ".dart"
RootClassName(rootFolder) == "_" \o Capitalize(BaseName(rootFolder))

AggregatorName == "assets_app.dart"

\* The text written for one category
PartContent(rootFolder, ds, fs) ==
    << "part of 'assets_app.dart';", "" >>
    \o generateClassRecursively(<<rootFolder>>, rootFolder, RootClassName(rootFolder), ds, fs)

PartDecl(rootFolder) == "part '" \o PartFileName(rootFolder) \o "';"
AggregatorProperty(rootFolder) ==
    "  static const " \o formatPropertyName(rootFolder) \o " = "
        \o RootClassName(rootFolder) \o "();"

\* The text written to assets_app.dart
MainContent(subdirs) ==
    [ i \in 1..Len(subdirs) |-> PartDecl(subdirs[i]) ]
    \o << "", "class AssetsApp {", "  AssetsApp._();", "" >>
    \o [ i \in 1..Len(subdirs) |-> AggregatorProperty(subdirs[i]) ]
    \o << "}" >>

\* The writeFileSync calls of generateAllAssetsClasses, in order
GeneratorWrites(ds, fs) ==
    LET subdirs == ReadDirDirs(<<>>, ds, fs)
    IN  [ i \in 1..Len(subdirs) |->
            [ file |-> PartFileName(subdirs[i]), content |-> PartContent(subdirs[i], ds, fs) ] ]
        \o << [ file |-> AggregatorName, content |-> MainContent(subdirs) ] >>

RECURSIVE ApplyWrites(_, _)
ApplyWrites(out, writes) ==
    IF Len(writes) = 0 THEN out
    ELSE ApplyWrites(
            [ f \in (DOMAIN out) \cup {writes[1].file} |->
                IF f = writes[1].file THEN writes[1].content ELSE out[f] ],
            Tail(writes))

EmptyDir == [ f \in {} |-> << >> ]

\* !generatedFiles.includes(file) && file.endsWith('.dart')
Stale(file, generatedFiles) == file \notin generatedFiles /\ EndsWith(file, ".dart")

\* generateAllAssetsClasses: the output directory's files after the call
\* (the directory is created when missing)
generateAllAssetsClasses(out, ds, fs) ==
    LET writes == GeneratorWrites(ds, fs)
        generatedFiles == { writes[i].file : i \in 1..Len(writes) }
        written == ApplyWrites(IF out.exists THEN out.files ELSE EmptyDir, writes)
        kept == { f \in DOMAIN written : ~Stale(f, generatedFiles) }
    IN  [ f \in kept |-> written[f] ]

-----------------------------------------------------------------------------
(* Manifest synchronizer *)

EntryLine(relPath) == "- assets/" \o ForwardSlash(relPath) \o "/"

\* scanDirs(dirPath, relPath): the required entries of a directory and of the
\* non-variant directories below it, in discovery order
RECURSIVE scanDirs(_, _, _, _)
RECURSIVE ScanChildren(_, _, _, _, _)
scanDirs(p, relPath, ds, fs) ==
    << EntryLine(relPath) >> \o ScanChildren(SubdirsOf(p, ds, fs), p, relPath, ds, fs)
ScanChildren(subdirs, p, relPath, ds, fs) ==
    IF Len(subdirs) = 0 THEN << >>
    ELSE scanDirs(Append(p, subdirs[1]), relPath \o "/" \o subdirs[1], ds, fs)
         \o ScanChildren(Tail(subdirs), p, relPath, ds, fs)

\* requiredAssets: one scan per directory directly below the asset root
RECURSIVE ScanRoots(_, _, _)
ScanRoots(rootDirs, ds, fs) ==
    IF Len(rootDirs) = 0 THEN << >>
    ELSE scanDirs(<<rootDirs[1]>>, rootDirs[1], ds, fs) \o ScanRoots(Tail(rootDirs), ds, fs)
RequiredAssets(ds, fs) == ScanRoots(ReadDirDirs(<<>>, ds, fs), ds, fs)

\* The least index of a set of indices (findIndex, 1-based); 0 when there is none
Least(hits) == IF hits = {} THEN 0 ELSE CHOOSE i \in hits : \A j \in hits : i <= j

\* lines.findIndex(l => l.startsWith('flutter:'))
FlutterIndexOf(lines) == Least({ i \in 1..Len(lines) : StartsWith(lines[i], "flutter:") })

\* lines.findIndex((l, i) => i > flutterIndex && l.match(/^ {2}assets:/))
AssetsIndexOf(lines, flutterIndex) ==
    Least({ i \in 1..Len(lines) : i > flutterIndex /\ StartsWith(lines[i], "  assets:") })

\* lines.splice(k - 1, 0, x): x becomes the k-th line
InsertAt(lines, k, x) == SubSeq(lines, 1, k - 1) \o <<x>> \o SubSeq(lines, k, Len(lines))

\* The lines with the flutter: section and its assets: sub-block located or
\* created, and the index of the sub-block marker
WithAssetsBlock(lines0) ==
    LET f0 == FlutterIndexOf(lines0)
        lines1 == IF f0 = 0 THEN lines0 \o << "", "flutter:", "  assets:" >> ELSE lines0
        flutterIndex == IF f0 = 0 THEN Len(lines1) - 1 ELSE f0
        a0 == AssetsIndexOf(lines1, flutterIndex)
        lines2 == IF a0 = 0 THEN InsertAt(lines1, flutterIndex + 1, "  assets:") ELSE lines1
        assetsIndex == IF a0 = 0 THEN flutterIndex + 1 ELSE a0
    IN  [ lines |-> lines2, assetsIndex |-> assetsIndex ]

\* The insertion loop without its membership test: every required line is inserted.
IsMissingAlways(reqAsset, existingEntries) == TRUE

IsMissing(reqAsset, existingEntries) == reqAsset \notin existingEntries

RECURSIVE InsertMissing(_, _, _, _, _)
InsertMissing(lines, required, existingEntries, assetsIndex, addedCount) ==
    IF Len(required) = 0 THEN lines
    ELSE IF IsMissing(required[1], existingEntries)
         THEN InsertMissing(InsertAt(lines, assetsIndex + 1 + addedCount, "    " \o required[1]),
                            Tail(required), existingEntries, assetsIndex, addedCount + 1)
         ELSE InsertMissing(lines, Tail(required), existingEntries, assetsIndex, addedCount)

\* A pruning test that spares every root-category entry, as the
\* specification describes it: only paths two or more segments deep qualify.
IsPrunableDeepOnly(line) ==
    LET trimmed == Trim(line)
    IN  /\ StartsWith(trimmed, "- assets/")
        /\ Len(SelectSeq(Split(trimmed, "/"), LAMBDA x : x # "")) > 2

\* trimmed.startsWith('- assets/') && trimmed.split('/').length > 2
IsPrunable(line) ==
    LET trimmed == Trim(line)
    IN  StartsWith(trimmed, "- assets/") /\ Len(Split(trimmed, "/")) > 2

\* trimmed.replace(/^- /, '').replace(/['"]/g, '').trim()
EntryPath(line) ==
    LET trimmed == Trim(line)
        noDash == IF StartsWith(trimmed, "- ") THEN SubSeq(trimmed, 3, Len(trimmed)) ELSE trimmed
    IN  Trim(RemoveChars(noDash, {"'", "\""}))

\* The filter of the pruning pass: TRUE for the lines that are kept
KeepLine(line, ds, fs) == IsPrunable(line) => PathExists(EntryPath(line), ds, fs)

\* syncPubspecYaml: the manifest's lines after the call, for a manifest that exists
syncPubspecYaml(lines0, ds, fs) ==
    LET block == WithAssetsBlock(lines0)
        existingEntries == { Trim(block.lines[i]) : i \in 1..Len(block.lines) }
        merged == InsertMissing(block.lines, RequiredAssets(ds, fs), existingEntries,
                                block.assetsIndex, 0)
    IN  SelectSeq(merged, LAMBDA line : KeepLine(line, ds, fs))

-----------------------------------------------------------------------------
(* Sync coordinator *)

DebounceMs == 600
ResetMs == 2000

\* Timer handles the host can have outstanding at once
MaxTimers == 2

\* Amounts by which the clock advances in one step
TickSteps == {200, 1000}

\* I/O failures a pass can meet: none, reading pubspec.yaml throws, the first
\* write into the output directory throws
Faults == {"none", "manifest", "output"}

\* The failures the next pass can meet
FaultsNow == IF faulty THEN Faults ELSE {"none"}

EventKinds == {"create", "change", "delete", "rename"}

Min(a, b) == IF a < b THEN a ELSE b
Minus(a, b) == IF a > b THEN a - b ELSE 0
RemoveAt(seq, i) == SubSeq(seq, 1, i - 1) \o SubSeq(seq, i + 1, Len(seq))

\* updateStatusBarIcon: the text it sets
StatusBarText(isAuto) ==
    IF isAuto THEN "$(zap) Assets Auto-Sync: Active"
    ELSE "$(circle-slash) Assets Auto-Sync: Paused"

NoOp(op) ==
    [ op |-> op, ran |-> FALSE, ok |-> FALSE, guardBefore |-> isSyncing,
      errors |-> 0, infos |-> 0, writes |-> << >>, again |-> FALSE, removed |-> {} ]

\* The re-entrancy test that is never true.
ReentryBlockedNever(guard) == FALSE

\* if (isSyncing) return;
ReentryBlocked(guard) == guard

\* A catch branch that leaves the guard set.
CatchGuardValueStuck == TRUE

\* catch: isSyncing = false
CatchGuardValue == FALSE

\* The pass of runFullSync, entered with the guard clear and the asset root present
SyncPass(op, fault, infos) ==
    LET manifestThrows == fault = "manifest" /\ manifest.exists
        threw == manifestThrows \/ fault = "output"
        newManifest == IF ~manifest.exists \/ manifestThrows THEN manifest
                       ELSE ManifestOf(syncPubspecYaml(manifest.lines, dirs, files))
        newOut == IF manifestThrows THEN outFiles
                  ELSE IF fault = "output"
                       THEN OutputOf(outFiles.files)
                       ELSE OutputOf(generateAllAssetsClasses(outFiles, dirs, files))
    IN  /\ manifest' = newManifest
        /\ outFiles' = newOut
        /\ isSyncing' = IF threw THEN CatchGuardValue ELSE TRUE
        /\ statusText' = IF threw THEN StatusBarText(autoSync) ELSE "$(check) Assets Synced"
        /\ resetTimers' = IF threw THEN resetTimers ELSE Append(resetTimers, ResetMs)
        /\ synced' = ~threw
        /\ lastOp' = [ op |-> op, ran |-> TRUE, ok |-> ~threw, guardBefore |-> isSyncing,
                       errors |-> IF threw THEN 1 ELSE 0, infos |-> infos,
                       writes |-> IF threw THEN << >> ELSE GeneratorWrites(dirs, files),
                       again |-> synced,
                       removed |-> Range(manifest.lines) \ Range(newManifest.lines) ]

\* runFullSync(uri, force) for a uri inside the workspace folder
runFullSync(op, force, fault, infos) ==
    IF \/ ~autoSync /\ ~force
       \/ ReentryBlocked(isSyncing)
       \/ << >> \notin dirs
    THEN /\ UNCHANGED <<manifest, outFiles, isSyncing, statusText, resetTimers, synced>>
         /\ lastOp' = [ NoOp(op) EXCEPT !.infos = infos ]
    ELSE SyncPass(op, fault, infos)

\* The handle setTimeout returns: one no pending timer holds
FreshHandles(pending) == { h \in 1..MaxTimers : \A t \in pending : t.id # h }

\* debouncedSync that arms a timer without cancelling the pending one.
AfterClearKeepsAll(pending, handle) == pending

\* if (syncTimer) clearTimeout(syncTimer): the timers left pending
AfterClear(pending, handle) == { t \in pending : t.id # handle }

\* debouncedSync(uri): a watcher event (create, change, delete) or a rename
\* of at least one file
ChangeEvent ==
    /\ workspaceOpen
    /\ \E kind \in EventKinds :
        LET left == AfterClear(timers, syncTimer)
        IN  /\ FreshHandles(left) # {}
            /\ LET h == CHOOSE x \in FreshHandles(left) : \A y \in FreshHandles(left) : x <= y
               IN  /\ timers' = left \cup { [ id |-> h, remaining |-> DebounceMs ] }
                   /\ syncTimer' = h
            /\ lastOp' = NoOp(kind)
    /\ sinceEvent' = 0
    /\ burstPasses' = 0
    /\ UNCHANGED <<isSyncing, resetTimers, autoSync, statusText, workspaceOpen, toggling,
                   fsVars, synced, fsOps, fmtVars>>

\* The debounce timer's callback: if (!isSyncing) runFullSync(uri)
TimerFire ==
    /\ \E t \in timers :
        /\ t.remaining = 0
        /\ timers' = timers \ {t}
    /\ IF ~isSyncing
       THEN \E fault \in FaultsNow : runFullSync("timer", FALSE, fault, 0)
       ELSE /\ lastOp' = NoOp("timer")
            /\ UNCHANGED <<manifest, outFiles, isSyncing, statusText, resetTimers, synced>>
    /\ burstPasses' = IF lastOp'.ran THEN burstPasses + 1 ELSE burstPasses
    /\ UNCHANGED <<syncTimer, autoSync, workspaceOpen, sinceEvent, toggling, dirs, files,
                   faulty, fsOps, fmtVars>>

\* flutter-assets-generator.forceGenerate
ForceGenerate ==
    /\ IF workspaceOpen
       THEN \E fault \in FaultsNow : runFullSync("force", TRUE, fault, 1)
       ELSE /\ lastOp' = NoOp("force")
            /\ UNCHANGED <<manifest, outFiles, isSyncing, statusText, resetTimers, synced>>
    /\ UNCHANGED <<syncTimer, timers, autoSync, workspaceOpen, sinceEvent, toggling,
                   burstPasses, dirs, files, faulty, fsOps, fmtVars>>

\* The callback runFullSync schedules on success: updateStatusBarIcon(); isSyncing = false
GuardReset ==
    /\ \E i \in 1..Len(resetTimers) :
        /\ resetTimers[i] = 0
        /\ resetTimers' = RemoveAt(resetTimers, i)
    /\ statusText' = StatusBarText(autoSync)
    /\ isSyncing' = FALSE
    /\ lastOp' = NoOp("reset")
    /\ UNCHANGED <<syncTimer, timers, autoSync, workspaceOpen, sinceEvent, toggling,
                   burstPasses, fsVars, synced, fsOps, fmtVars>>

\* flutter-assets-generator.toggleAutoSync up to its await
ToggleStart ==
    /\ toggling = "none"
    /\ toggling' = IF autoSync THEN "toFalse" ELSE "toTrue"
    /\ lastOp' = NoOp("toggle")
    /\ UNCHANGED <<isSyncing, syncTimer, timers, resetTimers, autoSync, statusText,
                   workspaceOpen, sinceEvent, burstPasses, fsVars, synced, fsOps, fmtVars>>

\* ... and from its await on: the configuration is written, the status bar updated
ToggleFinish ==
    /\ toggling # "none"
    /\ autoSync' = (toggling = "toTrue")
    /\ statusText' = StatusBarText(autoSync')
    /\ toggling' = "none"
    /\ lastOp' = [ NoOp("toggled") EXCEPT !.infos = 1 ]
    /\ UNCHANGED <<isSyncing, syncTimer, timers, resetTimers, workspaceOpen, sinceEvent,
                   burstPasses, fsVars, synced, fsOps, fmtVars>>

\* Time passes: every pending timer comes d ms closer to being due
Tick(d) ==
    /\ \/ \E t \in timers : t.remaining > 0
       \/ \E i \in 1..Len(resetTimers) : resetTimers[i] > 0
       \/ sinceEvent < DebounceMs
    /\ timers' = { [ t EXCEPT !.remaining = Minus(t.remaining, d) ] : t \in timers }
    /\ resetTimers' = [ i \in 1..Len(resetTimers) |-> Minus(resetTimers[i], d) ]
    /\ sinceEvent' = Min(DebounceMs, sinceEvent + d)
    /\ lastOp' = NoOp("tick")
    /\ UNCHANGED <<isSyncing, syncTimer, autoSync, statusText, workspaceOpen, toggling,
                   burstPasses, fsVars, synced, fsOps, fmtVars>>

-----------------------------------------------------------------------------
(* The environment: changes of the asset tree *)

\* File-system changes in one behaviour
MaxFsOps == 1

MakeDir ==
    /\ fsOps < MaxFsOps
    /\ \E p \in DirUniverse \ dirs :
        /\ p = << >> \/ Parent(p) \in dirs
        /\ dirs' = dirs \cup {p}
    /\ UNCHANGED files

\* A directory is removed with everything below it
RemoveDir ==
    /\ fsOps < MaxFsOps
    /\ \E p \in dirs :
        /\ dirs' = { d \in dirs : ~IsUnder(d, p) }
        /\ files' = { f \in files : ~IsUnder(f, p) }

CreateFile ==
    /\ fsOps < MaxFsOps
    /\ \E f \in FileUniverse \ files :
        /\ Parent(f) \in dirs
        /\ files' = files \cup {f}
    /\ UNCHANGED dirs

DeleteFile ==
    /\ fsOps < MaxFsOps
    /\ \E f \in files : files' = files \ {f}
    /\ UNCHANGED dirs

TreeChange ==
    /\ MakeDir \/ RemoveDir \/ CreateFile \/ DeleteFile
    /\ fsOps' = fsOps + 1
    /\ synced' = FALSE
    /\ lastOp' = NoOp("fs")
    /\ UNCHANGED <<coordVars, manifest, outFiles, faulty, fmtVars>>

-----------------------------------------------------------------------------
(* Specifications *)

\* The state after activate()
Activated ==
    /\ isSyncing = FALSE
    /\ syncTimer = 0
    /\ timers = {}
    /\ resetTimers = << >>
    /\ toggling = "none"
    /\ sinceEvent = DebounceMs
    /\ burstPasses = 0
    /\ statusText = StatusBarText(autoSync)
    /\ lastOp = NoOp("activate")
    /\ synced = FALSE
    /\ fsOps = 0

FmtIdle == fmtIn = "" /\ fmtOut = "" /\ fmtPc = "idle"

SmallTree == [ dirs |-> { << >>, <<"images">> }, files |-> { <<"images", "logo.png">> } ]
NoTree == [ dirs |-> {}, files |-> {} ]
PlainManifest == ManifestOf(<< "name: app", "flutter:", "  assets:", "" >>)

\* The coordinator on a fixed project: events, timers, commands and the clock
Init ==
    /\ autoSync \in BOOLEAN
    /\ workspaceOpen \in BOOLEAN
    /\ \E t \in {SmallTree, NoTree} : dirs = t.dirs /\ files = t.files
    /\ manifest = PlainManifest
    /\ outFiles = NoDir
    /\ faulty = TRUE
    /\ Activated
    /\ FmtIdle

Next ==
    \/ ChangeEvent
    \/ TimerFire
    \/ ForceGenerate
    \/ GuardReset
    \/ ToggleStart
    \/ ToggleFinish
    \/ \E d \in TickSteps : Tick(d)

Spec == Init /\ [][Next]_vars

\* The host's event loop: the clock advances and a due callback is run
LiveSpec ==
    /\ Spec
    /\ WF_vars(\E d \in TickSteps : Tick(d))
    /\ WF_vars(GuardReset)
    /\ WF_vars(TimerFire)

\* Manifests a project may hold before the first pass
InitialManifests ==
    { NoFile,
      ManifestOf(<< "name: app", "" >>),
      ManifestOf(<< "name: app", "flutter:", "  uses-material-design: true" >>),
      ManifestOf(<< "name: app", "flutter:", "  assets:", "    - assets/images/",
                    "    - assets/old/", "    - assets/images/gone/", "" >>),
      ManifestOf(<< "flutter:", "  assets:", "    - 'assets/old/'", "    - assets/fonts",
                    "    - assets/images/2.0x/" >>) }

\* An output directory holding files of an earlier run
LeftOverOutput == OutputOf([ f \in {"old.dart", "notes.txt"} |-> << "// left over" >> ])

\* Passes over every tree and manifest on a disk that does not fail:
\* auto-sync is off, passes are forced
SyncInit ==
    /\ autoSync = FALSE
    /\ workspaceOpen = TRUE
    /\ dirs \in SUBSET DirUniverse
    /\ files \in SUBSET FileUniverse
    /\ TreeOk(dirs, files)
    /\ manifest \in InitialManifests
    /\ outFiles \in { NoDir, LeftOverOutput }
    /\ faulty = FALSE
    /\ Activated
    /\ FmtIdle

SyncNext ==
    \/ ForceGenerate
    \/ GuardReset
    \/ Tick(ResetMs)
    \/ TreeChange

SyncSpec == SyncInit /\ [][SyncNext]_vars

\* Identifier derivation on its own
MaxNameLen == 3
NameAlphabet == {"a", "C", "1", "-", "_", "."}
ExampleNames == {"my-icon_1", "class", "123abc", "Class", "-class", "1-a", "final_", "if"}

RECURSIVE NamesUpTo(_)
NamesUpTo(n) ==
    IF n = 0 THEN {""}
    ELSE NamesUpTo(n - 1) \cup { s \o c : s \in NamesUpTo(n - 1), c \in NameAlphabet }

FmtInit ==
    /\ fmtIn \in NamesUpTo(MaxNameLen) \cup ExampleNames
    /\ fmtOut = ""
    /\ fmtPc = "input"
    /\ autoSync = TRUE
    /\ workspaceOpen = FALSE
    /\ dirs = {} /\ files = {}
    /\ manifest = NoFile
    /\ outFiles = NoDir
    /\ faulty = FALSE
    /\ Activated

FormatName ==
    /\ fmtPc = "input"
    /\ fmtOut' = formatPropertyName(fmtIn)
    /\ fmtPc' = "done"
    /\ UNCHANGED <<fmtIn, coordVars, fsVars, lastOp, synced, fsOps>>

FmtNext == FormatName

FmtSpec == FmtInit /\ [][FmtNext]_vars

-----------------------------------------------------------------------------
(* Properties *)

AssetRootExists == << >> \in dirs

\* C1: passes are strictly sequential.  No pass starts while the guard
\* isSyncing is set by an earlier pass; the guard stays set from a successful
\* pass until its reset callback runs, and at most one reset callback is
\* pending.
C1_PassesSequential ==
    /\ lastOp.ran => ~lastOp.guardBefore
    /\ Len(resetTimers) <= 1
    /\ Len(resetTimers) = 1 => isSyncing

\* A force command arrived while the guard of an earlier pass was set and
\* started no pass.
C1_Witness ==
    /\ lastOp.op = "force" /\ lastOp.guardBefore /\ ~lastOp.ran
    /\ workspaceOpen /\ AssetRootExists /\ Len(resetTimers) = 1

\* C2: debounce.  At most one debounce timer is pending; a change event leaves
\* exactly one pending timer, armed with the full 600 ms; a pass started by
\* the timer starts no earlier than 600 ms after the last event; and the
\* events since the last timer pass start at most one pass.
C2_Debounce ==
    /\ Cardinality(timers) <= 1
    /\ lastOp.op \in EventKinds =>
          timers = { [ id |-> syncTimer, remaining |-> DebounceMs ] }
    /\ lastOp.op = "timer" => sinceEvent >= DebounceMs
    /\ burstPasses <= 1

\* The debounce timer fired 600 ms after the last event and started the one pass.
C2_Witness ==
    /\ lastOp.op = "timer" /\ lastOp.ran /\ burstPasses = 1
    /\ sinceEvent >= DebounceMs /\ timers = {}

\* C3: force-sync runs a pass whenever a workspace is open and the asset root
\* exists, in every coordinator state and for either value of autoSync.
C3_ForceAlwaysRuns ==
    (lastOp.op = "force" /\ workspaceOpen /\ AssetRootExists) => lastOp.ran

\* C9: a pass that throws reports one error, clears the guard in the same
\* call and schedules nothing; a pass that succeeds keeps the guard set with
\* one reset callback pending; and the guard, once set, is eventually cleared.
C9_GuardReleased ==
    /\ [](lastOp.ran /\ ~lastOp.ok => ~isSyncing /\ lastOp.errors = 1)
    /\ [](lastOp.ran /\ lastOp.ok => isSyncing /\ lastOp.errors = 0 /\ Len(resetTimers) = 1)
    /\ [][lastOp'.ran /\ ~lastOp'.ok => timers' \subseteq timers /\ resetTimers' = resetTimers]_vars
    /\ (isSyncing ~> ~isSyncing)

\* A pass threw: one error was reported and the guard is clear again.
C9_Witness == lastOp.ran /\ ~lastOp.ok /\ lastOp.errors = 1 /\ ~isSyncing

-----------------------------------------------------------------------------
(* Properties of the manifest and of the generated files *)

PassSucceeded == lastOp.ran /\ lastOp.ok

PathStr(p) == Join(p, "/")

\* Directory paths a manifest of the model can mention
MentionedDirs == { PathStr(p) : p \in DirUniverse \ { << >> } } \cup { "old", "images/gone" }

\* The manifest declares the directory assets/<rel>/, bare or quoted
HasEntry(lines, rel) ==
    \E i \in 1..Len(lines) :
        Trim(lines[i]) \in { "- assets/" \o rel \o "/", "- 'assets/" \o rel \o "/'",
                             "- \"assets/" \o rel \o "/\"" }

DirOnDisk(rel) == \E p \in dirs : p # << >> /\ PathStr(p) = rel

InVariantDir(p) == \E i \in 1..(Len(p) - 1) : IsVariant(p[i])
HasVariantPart(p) == \E i \in 1..Len(p) : IsVariant(p[i])

\* C4: after a pass with the manifest present, every existing non-variant
\* directory has its entry, and no entry remains for a directory that does
\* not exist.
C4_ManifestMatchesDisk ==
    (PassSucceeded /\ manifest.exists) =>
        /\ \A p \in dirs : (p # << >> /\ ~HasVariantPart(p))
                               => HasEntry(manifest.lines, PathStr(p))
        /\ \A rel \in MentionedDirs : HasEntry(manifest.lines, rel) => DirOnDisk(rel)

DartFiles == { f \in DOMAIN outFiles.files : EndsWith(f, ".dart") }
Categories == ReadDirDirs(<< >>, dirs, files)

\* C5: after a successful pass the .dart files of the output directory are
\* the aggregator plus one file per category, each category's file holding
\* that category's text.
C5_OutputExact ==
    PassSucceeded =>
        /\ AggregatorName \in DartFiles
        /\ Cardinality(DartFiles) = 1 + Len(Categories)
        /\ \A i \in 1..Len(Categories) :
              /\ PartFileName(Categories[i]) \in DartFiles
              /\ outFiles.files[PartFileName(Categories[i])]
                    = PartContent(Categories[i], dirs, files)

\* C6: a pass that follows a successful pass on an unchanged tree leaves the
\* manifest and every file of the output directory as they were.
C6_Idempotent ==
    [][ (synced /\ lastOp'.ran /\ lastOp'.ok) => (manifest' = manifest /\ outFiles' = outFiles) ]_vars

\* A second pass ran on an unchanged tree with a manifest and two categories.
C6_Witness ==
    /\ PassSucceeded /\ lastOp.again /\ manifest.exists
    /\ Len(Categories) = 2 /\ <<"images", "icons">> \in dirs

\* The value of the string property of the file at path p
AssetValue(p) == "assets/" \o PathStr(Parent(p)) \o "/" \o p[Len(p)]

IsStringPropertyOf(line, value) ==
    /\ StartsWith(line, "  final String ")
    /\ \/ EndsWith(line, " = '" \o value \o "';")
       \/ EndsWith(line, " = '" \o value \o "'; // SVG File")

\* Number of string properties with the given value in a set of texts,
\* given as a function from a key to the text's lines
PropertyCount(texts, value) ==
    Cardinality({ kl \in UNION { { <<k, i>> : i \in 1..Len(texts[k]) } : k \in DOMAIN texts } :
                    IsStringPropertyOf(texts[kl[1]][kl[2]], value) })

CategoryFilesOnDisk == [ f \in DartFiles \ {AggregatorName} |-> outFiles.files[f] ]

\* The category texts the last pass wrote (every write but the aggregator's)
CategoryTextsWritten ==
    [ i \in 1..(Len(lastOp.writes) - 1) |-> lastOp.writes[i].content ]

IsDotFile(p) == StartsWith(p[Len(p)], ".")

\* C7 as stated: every file outside variant directories has exactly one
\* string property in the generated category files.
C7_Original ==
    PassSucceeded =>
        \A f \in files : ~InVariantDir(f) => PropertyCount(CategoryFilesOnDisk, AssetValue(f)) = 1

\* C7 amended: for a file inside a category, outside variant directories and
\* not a dotfile, the category texts the pass writes hold exactly one string
\* property with its path; for a dotfile or a file directly in the asset
\* root they hold none.
C7_Completeness ==
    PassSucceeded =>
        \A f \in files :
            ~InVariantDir(f) =>
                PropertyCount(CategoryTextsWritten, AssetValue(f))
                    = IF Len(f) >= 2 /\ ~IsDotFile(f) THEN 1 ELSE 0

\* A pass ran over a tree with a nested svg file, a dotfile and a root file.
C7_Witness ==
    /\ PassSucceeded
    /\ { <<"images", "icons", "user.svg">>, <<"images", ".gitkeep">>, <<"readme.md">>,
         <<"images", "logo.png">> } \subseteq files

\* C8 as stated: 123abc is derived to item123Abc.
C8_Original ==
    fmtPc = "done" =>
        /\ fmtIn = "my-icon_1" => fmtOut = "myIcon1"
        /\ fmtIn = "class" => fmtOut = "classAsset"
        /\ fmtIn = "123abc" => fmtOut = "item123Abc"
        /\ fmtOut # "" /\ ~IsDigit(Head(fmtOut)) /\ fmtOut \notin dartKeywords

\* C8 amended: 123abc is derived to item123abc (nothing capitalizes the
\* letter after the digits); the steps apply in the stated order and the
\* result is never empty, never starts with a digit, is never a reserved
\* word and holds only letters and digits.
C8_IdentifierSafety ==
    fmtPc = "done" =>
        /\ fmtIn = "my-icon_1" => fmtOut = "myIcon1"
        /\ fmtIn = "class" => fmtOut = "classAsset"
        /\ fmtIn = "123abc" => fmtOut = "item123abc"
        /\ fmtIn = "-class" => fmtOut = "classAsset"
        /\ fmtIn = "Class" => fmtOut = "classAsset"
        /\ fmtIn = "1-a" => fmtOut = "item1A"
        /\ fmtIn = "final_" => fmtOut = "finalAsset"
        /\ fmtIn = "-_." => fmtOut = "unknown"
        /\ fmtOut # "" /\ ~IsDigit(Head(fmtOut)) /\ fmtOut \notin dartKeywords
        /\ \A i \in 1..Len(fmtOut) : IsAlnum(CharAt(fmtOut, i))

\* The name with leading digits has been derived.
C8_Witness == fmtPc = "done" /\ fmtIn = "123abc" /\ fmtOut = "item123abc"

SlashCount(s) == Len(Split(s, "/")) - 1

\* Names after "assets" in an entry line's path
EntryDepth(line) == Len(SelectSeq(Split(EntryPath(line), "/"), LAMBDA x : x # "")) - 1

IsAssetEntry(line) == StartsWith(Trim(line), "- assets/")

\* C10 as stated: a pass removes only entries two or more segments deep whose
\* directory is gone; a root-category entry is never removed.
C10_Original ==
    [][ \A line \in Range(manifest.lines) \ Range(manifest'.lines) :
            IsAssetEntry(line) /\ EntryDepth(line) >= 2 ]_vars

\* C10 amended: a pass removes a line if and only if its trimmed text starts
\* with "- assets/", holds at least two slashes and names a path that does
\* not exist.  The root-category entry the synchronizer writes,
\* "- assets/<category>/", has two slashes and is removed once the category
\* is gone; only an entry with a single slash is never removed.
C10_PruningRule ==
    [][ /\ \A line \in Range(manifest.lines) \ Range(manifest'.lines) :
              /\ IsAssetEntry(line) /\ SlashCount(Trim(line)) >= 2
              /\ ~PathExists(EntryPath(line), dirs, files)
        /\ (lastOp'.ran /\ lastOp'.ok) =>
              \A line \in Range(manifest.lines) :
                  (IsAssetEntry(line) /\ SlashCount(Trim(line)) >= 2
                     /\ ~PathExists(EntryPath(line), dirs, files))
                  => line \notin Range(manifest'.lines) ]_vars

\* A pass removed the root-category entry of a directory that is gone.
C10_Witness ==
    /\ PassSucceeded
    /\ \E line \in lastOp.removed :
          /\ IsAssetEntry(line) /\ EntryDepth(line) = 1
          /\ ~PathExists(EntryPath(line), dirs, files)

====
